---------------------------- MODULE Spec2Model ----------------------------
(***************************************************************************)
(* A model of core/custom_scraper/arxiv.py: the arXiv URL classifier, the  *)
(* link normalizer url_inspect, extract_date, the per-page-type extractors *)
(* and the dispatcher ArxivScraper.arxiv_scraper.                          *)
(*                                                                         *)
(* Python strings are sequences of one-character strings, so that prefix   *)
(* tests, substring tests, strip() and the regular expressions are         *)
(* computed character by character.  A parsed page (the BeautifulSoup      *)
(* tree) is a record holding what the extractors' find()/find_all()        *)
(* queries return on it.                                                   *)
(***************************************************************************)
EXTENDS Integers, Sequences, FiniteSets, TLC

VARIABLES
    url,                 \* dispatcher input: the url argument
    page,                \* dispatcher input: the parsed html argument
    ARXIV_SCRAPER_MODE,  \* process-wide mode, read once from the environment
    YEAR,                \* process-wide century prefix
    pc,                  \* position of the dispatch call
    local_url,           \* the dispatcher's url after the scheme replacement
    url_type,            \* the classifier's answer
    scraper,             \* the extractor selected by getattr, or NoScraper
    run,                 \* what the selected extractor did
    result,              \* the tuple returned to the caller
    escaped,             \* the exception that reached the caller, or NoExc
    nClassify,           \* classifications made by this call
    nInvoke,             \* extractor invocations made by this call
    raw, base,           \* url_inspect's arguments (normalizer runs)
    npc, first, second,  \* normalizer runs: position, first and second answer
    durl,                \* extract_date's argument (date runs)
    dpc, date            \* date runs: position and answer

vars == << url, page, ARXIV_SCRAPER_MODE, YEAR, pc, local_url, url_type,
           scraper, run, result, escaped, nClassify, nInvoke,
           raw, base, npc, first, second, durl, dpc, date >>

dispatchVars == << url, page, ARXIV_SCRAPER_MODE, pc, local_url, url_type,
                   scraper, run, result, escaped, nClassify, nInvoke >>

normVars == << raw, base, npc, first, second >>

dateVars == << durl, dpc, date >>

-----------------------------------------------------------------------------
(* Python str operations, character by character.                          *)

\* str.strip() removes these from both ends.
Whitespace == {" ", "\t", "\n", "\r"}

\* s.startswith(p)
StartsWith(s, p) == Len(p) <= Len(s) /\ SubSeq(s, 1, Len(p)) = p

\* s[i:i+len(p)] == p, with i counted from 1
MatchAt(s, i, p) == i >= 1 /\ i + Len(p) - 1 <= Len(s) /\ SubSeq(s, i, i + Len(p) - 1) = p

\* p in s
Contains(s, p) == \E i \in 1..(Len(s) + 1) : MatchAt(s, i, p)

\* s.find(p), counted from 1; 0 when p does not occur
Find(s, p) ==
    IF Contains(s, p)
    THEN CHOOSE i \in 1..(Len(s) + 1) :
            MatchAt(s, i, p) /\ \A j \in 1..(i - 1) : ~MatchAt(s, j, p)
    ELSE 0

\* s.replace(old, new, 1): the first occurrence only
ReplaceFirst(s, old, new) ==
    LET i == Find(s, old) IN
    IF i = 0 THEN s
    ELSE SubSeq(s, 1, i - 1) \o new \o SubSeq(s, i + Len(old), Len(s))

RECURSIVE LStrip(_)
LStrip(s) == IF s # <<>> /\ Head(s) \in Whitespace THEN LStrip(Tail(s)) ELSE s

RECURSIVE RStrip(_)
RStrip(s) ==
    IF s # <<>> /\ s[Len(s)] \in Whitespace THEN RStrip(SubSeq(s, 1, Len(s) - 1)) ELSE s

\* s.strip()
Strip(s) == RStrip(LStrip(s))

Digits == <<"0", "1", "2", "3", "4", "5", "6", "7", "8", "9">>

\* c.isdigit() for one character
IsDigit(c) == \E i \in DOMAIN Digits : Digits[i] = c

DigitVal(c) == (CHOOSE i \in DOMAIN Digits : Digits[i] = c) - 1

\* int(s) for a string of two digits
Int2(s) == DigitVal(s[1]) * Len(Digits) + DigitVal(s[2])

\* sep.join(parts)
RECURSIVE Join(_, _)
Join(sep, parts) ==
    IF parts = <<>> THEN <<>>
    ELSE IF Len(parts) = 1 THEN parts[1]
    ELSE parts[1] \o sep \o Join(sep, Tail(parts))

\* The regular expression ".*" matches s[i..j-1]: "." is any character but a newline.
DotStar(s, i, j) == \A k \in i..(j - 1) : s[k] # "\n"

\* The regular expression "$" at position i: the end, or just before a final newline.
AtEnd(s, i) == i = Len(s) + 1 \/ (i = Len(s) /\ s[i] = "\n")

-----------------------------------------------------------------------------
(* ARXIV_URL_PATTERNS and classify_arxiv_url.                              *)

\* The page types in the dictionary's (insertion) order.
PageTypes == <<"abs", "pdf", "html", "new", "recent", "search">>

\* ^https?://arxiv\.org  : the two prefixes the scheme and host part accepts.
SiteHeads == { <<"h","t","t","p",":","/","/","a","r","x","i","v",".","o","r","g">>, <<"h","t","t","p","s",":","/","/","a","r","x","i","v",".","o","r","g">> }

\* The prefix rule applied with search() instead of match(): found anywhere.
PrefixPattern_search(u, seg) == \E h \in SiteHeads : Contains(u, h \o seg)

\* ^https?://arxiv\.org/<seg>/.*   (match() needs no more than the prefix)
PrefixPattern(u, seg) == \E h \in SiteHeads : StartsWith(u, h \o seg)

\* ^https?://arxiv\.org/list/.*/<word>(?:\?.*)?$
ListPattern(u, word) ==
    \E h \in SiteHeads :
        LET p == h \o <<"/","l","i","s","t","/">>
            a == Len(p) + 1
        IN  /\ StartsWith(u, p)
            /\ \E k \in a..(Len(u) + 1) :
                  /\ DotStar(u, a, k)
                  /\ MatchAt(u, k, word)
                  /\ LET e == k + Len(word) IN
                     \/ AtEnd(u, e)
                     \/ /\ MatchAt(u, e, <<"?">>)
                        /\ \E m \in (e + 1)..(Len(u) + 1) :
                              DotStar(u, e + 1, m) /\ AtEnd(u, m)

\* ARXIV_URL_PATTERNS[page_type].match(u)
ARXIV_URL_PATTERNS(page_type, u) ==
    CASE page_type = "abs"    -> PrefixPattern(u, <<"/","a","b","s","/">>)
      [] page_type = "pdf"    -> PrefixPattern(u, <<"/","p","d","f","/">>)
      [] page_type = "html"   -> PrefixPattern(u, <<"/","h","t","m","l","/">>)
      [] page_type = "new"    -> ListPattern(u, <<"/","n","e","w">>)
      [] page_type = "recent" -> ListPattern(u, <<"/","r","e","c","e","n","t">>)
      [] page_type = "search" -> PrefixPattern(u, <<"/","s","e","a","r","c","h","/">>)

\* A classifier that tries the abstract rule on the path alone, whatever precedes it.
classify_arxiv_url_loose(u) ==
    IF Contains(u, <<"/","a","b","s","/">>) THEN "abs"
    ELSE IF \E i \in DOMAIN PageTypes : ARXIV_URL_PATTERNS(PageTypes[i], u)
         THEN PageTypes[CHOOSE i \in DOMAIN PageTypes :
                  /\ ARXIV_URL_PATTERNS(PageTypes[i], u)
                  /\ \A j \in 1..(i - 1) : ~ARXIV_URL_PATTERNS(PageTypes[j], u)]
         ELSE "other"

\* The first page type, in dictionary order, whose pattern matches; else 'other'.
classify_arxiv_url(u) ==
    IF \E i \in DOMAIN PageTypes : ARXIV_URL_PATTERNS(PageTypes[i], u)
    THEN PageTypes[CHOOSE i \in DOMAIN PageTypes :
             /\ ARXIV_URL_PATTERNS(PageTypes[i], u)
             /\ \A j \in 1..(i - 1) : ~ARXIV_URL_PATTERNS(PageTypes[j], u)]
    ELSE "other"

-----------------------------------------------------------------------------
(* Exceptions and optional values.                                         *)

NoExc == "none"

\* The exceptions the extractors raise; all are subclasses of Exception.
Exceptions == {"TypeError", "AttributeError", "KeyError", "ValueError"}

\* Python's None / a str value
None == [tag |-> "none", val |-> <<>>]
Str(s) == [tag |-> "str", val |-> s]

-----------------------------------------------------------------------------
(* url_inspect.                                                            *)

\* The default of url_inspect's base_url parameter.
DefaultBase == <<"h","t","t","p","s",":","/","/","a","r","x","i","v",".","o","r","g">>

\* url_inspect whose absolute branch accepts only the base URL itself.
url_inspect_exact(u, base_url) ==
    LET s == Strip(u) IN
    IF StartsWith(s, <<"/">>) THEN [raised |-> NoExc, val |-> base_url \o s]
    ELSE IF s = base_url THEN [raised |-> NoExc, val |-> s]
    ELSE [raised |-> "ValueError", val |-> <<>>]

\* Returns the absolute URL, or raises ValueError.
url_inspect(u, base_url) ==
    LET s == Strip(u) IN
    IF StartsWith(s, <<"/">>) THEN [raised |-> NoExc, val |-> base_url \o s]
    ELSE IF StartsWith(s, base_url) THEN [raised |-> NoExc, val |-> s]
    ELSE [raised |-> "ValueError", val |-> <<>>]

-----------------------------------------------------------------------------
(* extract_date.                                                           *)

\* re.compile(r'(\d{2})(\d{2})\.') matches at position i of s
DatePatternAt(s, i) ==
    /\ i + 4 <= Len(s)
    /\ \A k \in i..(i + 3) : IsDigit(s[k])
    /\ s[i + 4] = "."

\* findall(): the non-overlapping matches from position i on, left to right,
\* each as its two groups.
RECURSIVE FindAllFrom(_, _)
FindAllFrom(s, i) ==
    IF i + 4 > Len(s) THEN <<>>
    ELSE IF DatePatternAt(s, i)
         THEN << << SubSeq(s, i, i + 1), SubSeq(s, i + 2, i + 3) >> >>
                 \o FindAllFrom(s, i + 5)
         ELSE FindAllFrom(s, i + 1)

\* 1 <= int(month) <= 12
ValidMonth(month) == 1 <= Int2(month) /\ Int2(month) <= 12

\* f'{YEAR + year}-{month}-01'
FormatDate(year_prefix, match) ==
    year_prefix \o match[1] \o <<"-">> \o match[2] \o <<"-","0","1">>

\* extract_date that gives up after the first candidate.
extract_date_first_only(u, year_prefix) ==
    LET matches == FindAllFrom(u, 1) IN
    IF matches # <<>> /\ ValidMonth(matches[1][2])
    THEN Str(FormatDate(year_prefix, matches[1]))
    ELSE None

\* The date of the first match whose month is valid, or None.
extract_date(u, year_prefix) ==
    LET matches == FindAllFrom(u, 1)
        valid == { i \in DOMAIN matches : ValidMonth(matches[i][2]) }
    IN  IF valid = {} THEN None
        ELSE Str(FormatDate(year_prefix,
                            matches[CHOOSE i \in valid : \A j \in valid : i <= j]))

-----------------------------------------------------------------------------
(* The parsed page.  A tag's attribute is NoTag when find() returns None,  *)
(* NoAttr when the tag lacks the attribute, and Str(v) when it holds v.    *)

NoTag == [tag |-> "notag", val |-> <<>>]
NoAttr == [tag |-> "noattr", val |-> <<>>]

\* find(...)[attr]: TypeError on None, KeyError on a missing attribute.
SubscriptRaises(a) ==
    IF a.tag = "notag" THEN "TypeError"
    ELSE IF a.tag = "noattr" THEN "KeyError"
    ELSE NoExc

\* A page on which no query finds anything.
BlankSoup ==
    [ authors_div       |-> None,    \* find('div', class_='authors'), its get_text()
      citation_title    |-> NoTag,   \* find('meta', name='citation_title'), 'content'
      citation_date     |-> NoTag,   \* find('meta', name='citation_date'), 'content'
      citation_abstract |-> NoTag,   \* find('meta', name='citation_abstract'), 'content'
      latexml           |-> NoTag,   \* find('a', id='latexml-download-link'), 'href'
      title             |-> None,    \* find('title'), its text
      ltx_authors       |-> [present |-> FALSE, tags |-> <<>>],
                                     \* find('div', class_='ltx_authors') and its
                                     \* span.ltx_personname tags, each a sequence of
                                     \* nodes [kind, text]
      sections          |-> <<>>,    \* find_all(class_=['ltx_abstract','ltx_section'])
      dts               |-> <<>>,    \* find_all('dt'), each the hrefs of its <a> tags
      anchors           |-> <<>> ]   \* the hrefs of the <a> tags outside any <dt>

\* The article record, and the empty dict {}.
EmptyArticle ==
    [ populated |-> FALSE, title |-> <<>>, author |-> <<>>,
      publish_date |-> None, content |-> <<>> ]

Article(title, author, publish_date, content) ==
    [ populated |-> TRUE, title |-> title, author |-> author,
      publish_date |-> publish_date, content |-> content ]

\* What an extractor call did: the exception it raised, or the tuple it returned.
Raise(e) == [raised |-> e, article |-> EmptyArticle, links |-> {}, extra |-> <<>>]
Return(article, links) ==
    [raised |-> NoExc, article |-> article, links |-> links, extra |-> <<>>]

\* return {}, set(), []
EmptyResult == [article |-> EmptyArticle, links |-> {}, extra |-> <<>>]

-----------------------------------------------------------------------------
(* Collaborators outside this module.                                      *)

\* utils.general_utils.extract_and_convert_dates: YYYY/MM/DD or YYYY-MM-DD
\* becomes YYYY-MM-DD, anything else is absent.
extract_and_convert_dates(s) ==
    IF /\ Len(s) = Len(<<"Y","Y","Y","Y","-","M","M","-","D","D">>)
       /\ \A i \in {1, 2, 3, 4, 6, 7, 9, 10} : IsDigit(s[i])
       /\ s[5] = s[8]
       /\ s[5] \in {"/", "-"}
    THEN Str(SubSeq(s, 1, 4) \o <<"-">> \o SubSeq(s, 6, 7) \o <<"-">> \o SubSeq(s, 9, 10))
    ELSE None

\* utils.custom_markdownify.CustomMarkdownify.convert_soup: an opaque pure
\* function of the block; here the block's text followed by a blank line.
convert_soup(c) == c \o <<"\n","\n">>

-----------------------------------------------------------------------------
(* abs_scraper.                                                            *)

\* The inner abs_scraper_(parsed_soup).
abs_scraper_(soup) ==
    IF soup.authors_div.tag = "none" THEN Raise("AttributeError")
    ELSE IF SubscriptRaises(soup.citation_title) # NoExc
         THEN Raise(SubscriptRaises(soup.citation_title))
    ELSE IF SubscriptRaises(soup.citation_date) # NoExc
         THEN Raise(SubscriptRaises(soup.citation_date))
    ELSE IF SubscriptRaises(soup.citation_abstract) # NoExc
         THEN Raise(SubscriptRaises(soup.citation_abstract))
    ELSE
        LET text == soup.authors_div.val
            authors == IF StartsWith(text, <<"A","u","t","h","o","r","s",":">>)
                       THEN SubSeq(text, Len(<<"A","u","t","h","o","r","s",":">>) + 1, Len(text))
                       ELSE text
            citation_date == IF soup.citation_date.val # <<>>
                             THEN extract_and_convert_dates(soup.citation_date.val)
                             ELSE Str(soup.citation_date.val)
        IN  Return(Article(soup.citation_title.val, authors, citation_date,
                           soup.citation_abstract.val), {})

\* abs_scraper that, in the deferring mode, returns the metadata along with the link.
abs_scraper_both(soup, u, mode) ==
    IF mode = <<"a","b","s">> THEN abs_scraper_(soup)
    ELSE IF SubscriptRaises(soup.latexml) # NoExc THEN Raise(SubscriptRaises(soup.latexml))
    ELSE IF soup.latexml.val # <<>>
         THEN LET html_url == url_inspect(soup.latexml.val, DefaultBase)
                  meta == abs_scraper_(soup) IN
              IF html_url.raised # NoExc THEN Raise(html_url.raised)
              ELSE IF meta.raised # NoExc THEN Return(EmptyArticle, {html_url.val})
              ELSE Return(meta.article, {html_url.val})
    ELSE abs_scraper_(soup)

abs_scraper(soup, u, mode) ==
    IF mode = <<"a","b","s">> THEN abs_scraper_(soup)
    ELSE IF SubscriptRaises(soup.latexml) # NoExc THEN Raise(SubscriptRaises(soup.latexml))
    ELSE IF soup.latexml.val # <<>>
         THEN LET html_url == url_inspect(soup.latexml.val, DefaultBase) IN
              IF html_url.raised # NoExc THEN Raise(html_url.raised)
              ELSE Return(EmptyArticle, {html_url.val})
    ELSE abs_scraper_(soup)

-----------------------------------------------------------------------------
(* html_scraper.                                                           *)

\* s.split(sep) for a one-character separator: the pieces, empty ones included.
RECURSIVE SplitCh(_, _)
SplitCh(s, sep) ==
    LET i == Find(s, <<sep>>) IN
    IF i = 0 THEN <<s>>
    ELSE <<SubSeq(s, 1, i - 1)>> \o SplitCh(SubSeq(s, i + 1, Len(s)), sep)

\* s.split(): the maximal runs of non-whitespace characters.
RECURSIVE SplitWords(_)
SplitWords(s) ==
    LET t == LStrip(s) IN
    IF t = <<>> THEN <<>>
    ELSE LET ends == { i \in 1..Len(t) : t[i] \in Whitespace }
             n == IF ends = {} THEN Len(t) + 1
                  ELSE CHOOSE i \in ends : \A j \in ends : i <= j
         IN  <<SubSeq(t, 1, n - 1)>> \o SplitWords(SubSeq(t, n, Len(t)))

\* s.replace(old, new): every occurrence, left to right
RECURSIVE ReplaceAll(_, _, _)
ReplaceAll(s, old, new) ==
    LET i == Find(s, old) IN
    IF i = 0 THEN s
    ELSE SubSeq(s, 1, i - 1) \o new
            \o ReplaceAll(SubSeq(s, i + Len(old), Len(s)), old, new)

\* word.isdigit()
AllDigits(word) == word # <<>> /\ \A i \in DOMAIN word : IsDigit(word[i])

NonEmpty(s) == s # <<>>

\* One ltx_personname tag: drop the ltx_sup/ltx_note and <a> nodes, take the text
\* with '\t' between the stripped strings, split it again, and clean each name of
\* all-digit words and of '&'.
TagAuthors(tag) ==
    LET IsText(node) == node.kind = "text"
        kept == SelectSeq(tag, IsText)
        strings == SelectSeq([i \in DOMAIN kept |-> Strip(kept[i].text)], NonEmpty)
        text == Join(<<"\t">>, strings)
        pieces == SplitCh(text, "\t")
        author_list == SelectSeq([i \in DOMAIN pieces |-> Strip(pieces[i])], NonEmpty)
        KeepWord(word) == ~AllDigits(word) /\ word # <<"&">>
        Clean(author) == Join(<<" ">>, SelectSeq(SplitWords(author), KeepWord))
    IN  SelectSeq([i \in DOMAIN author_list |-> Clean(author_list[i])], NonEmpty)

RECURSIVE Concat(_)
Concat(seqs) == IF seqs = <<>> THEN <<>> ELSE Head(seqs) \o Concat(Tail(seqs))

\* The inner extract_authors(html_soup), on the author block's tags.
extract_authors(tags) ==
    ReplaceAll(Join(<<","," ">>, Concat([i \in DOMAIN tags |-> TagAuthors(tags[i])])), <<","," ",",">>, <<",">>)

html_scraper(soup, u, year_prefix) ==
    IF soup.title.tag = "none" THEN Raise("AttributeError")
    ELSE IF ~soup.ltx_authors.present THEN Raise("AttributeError")
    ELSE Return(Article(Strip(soup.title.val),
                        extract_authors(soup.ltx_authors.tags),
                        extract_date(u, year_prefix),
                        Concat([i \in DOMAIN soup.sections |-> convert_soup(soup.sections[i])])), {})

-----------------------------------------------------------------------------
(* new_scraper, recent_scraper, search_scraper.                            *)

\* lambda href: href and part in href
HrefHas(a, part) == a.tag = "str" /\ a.val # <<>> /\ Contains(a.val, part)

\* dt.find('a', href=...): the first matching <a> of the entry, or NoTag
FindAnchor(dt, part) ==
    LET hits == { i \in DOMAIN dt : HrefHas(dt[i], part) } IN
    IF hits = {} THEN NoTag ELSE dt[CHOOSE i \in hits : \A j \in hits : i <= j]

\* The link of one <dt>: the preferred page type's, else the abstract page's.
EntryLink(dt, mode) ==
    LET scraper_mode == <<"/">> \o mode \o <<"/">>
        href == FindAnchor(dt, scraper_mode)
        pick == IF href.tag # "notag" THEN href ELSE FindAnchor(dt, <<"/","a","b","s","/">>)
    IN  IF pick.tag = "notag" THEN [raised |-> "TypeError", val |-> <<>>]
        ELSE url_inspect(pick.val, DefaultBase)

\* The for loop over the <dt> tags from entry i on; the first exception ends it.
RECURSIVE new_loop(_, _, _, _)
new_loop(dts, i, mode, links) ==
    IF i > Len(dts) THEN Return(EmptyArticle, links)
    ELSE LET l == EntryLink(dts[i], mode) IN
         IF l.raised # NoExc THEN Raise(l.raised)
         ELSE new_loop(dts, i + 1, mode, links \cup {l.val})

new_scraper(soup, u, mode) == new_loop(soup.dts, 1, mode, {})

recent_scraper(soup, u, mode) == new_scraper(soup, u, mode)

\* Every <a> of the document: those of the entries, the others, and the
\* latexml download link when the page has one.
AllAnchors(soup) ==
    Concat(soup.dts) \o soup.anchors
        \o (IF soup.latexml.tag = "notag" THEN <<>> ELSE <<soup.latexml>>)

search_scraper(soup, u) ==
    LET IsAbs(a) == HrefHas(a, <<"/","a","b","s","/">>)
        hrefs == SelectSeq(AllAnchors(soup), IsAbs)
        got == [i \in DOMAIN hrefs |-> url_inspect(hrefs[i].val, DefaultBase)]
    IN  IF \E i \in DOMAIN got : got[i].raised # NoExc THEN Raise("ValueError")
        ELSE Return(EmptyArticle, { got[i].val : i \in DOMAIN got })

-----------------------------------------------------------------------------
(* The dispatcher ArxivScraper.arxiv_scraper.                              *)

NoScraper == "none"

\* The page types for which the class defines a '<type>_scraper' method.
Registered == {"abs", "html", "new", "recent", "search"}

\* getattr(self, '%s_scraper' % url_type, None)
getattr_scraper(t) == IF t \in Registered THEN t ELSE NoScraper

\* await scraper(html, url)
call_scraper(name, soup, u, mode, year_prefix) ==
    CASE name = "abs"    -> abs_scraper(soup, u, mode)
      [] name = "html"   -> html_scraper(soup, u, year_prefix)
      [] name = "new"    -> new_scraper(soup, u, mode)
      [] name = "recent" -> recent_scraper(soup, u, mode)
      [] name = "search" -> search_scraper(soup, u)

\* A try block that absorbs only the normalizer's ValueError.
try_scraper_value_error_only(r) ==
    IF r.raised = NoExc
    THEN [pc |-> "extracted", escaped |-> NoExc,
          result |-> [article |-> r.article, links |-> r.links, extra |-> r.extra]]
    ELSE IF r.raised = "ValueError"
    THEN [pc |-> "failed", escaped |-> NoExc, result |-> EmptyResult]
    ELSE [pc |-> "failed", escaped |-> r.raised, result |-> EmptyResult]

\* try: return await scraper(html, url) / except Exception: return {}, set(), []
try_scraper(r) ==
    IF r.raised = NoExc
    THEN [pc |-> "extracted", escaped |-> NoExc,
          result |-> [article |-> r.article, links |-> r.links, extra |-> r.extra]]
    ELSE IF r.raised \in Exceptions
    THEN [pc |-> "failed", escaped |-> NoExc, result |-> EmptyResult]
    ELSE [pc |-> "failed", escaped |-> r.raised, result |-> EmptyResult]

Terminal == {"extracted", "unsupported", "failed"}

\* The extractor call that has not been made.
NoRun == Raise(NoExc)

-----------------------------------------------------------------------------
(* The inputs.                                                             *)

\* The longest listing page, in <dt> entries.
MaxEntries == 2
\* The longest search-results page, in <a> tags.
MaxLinks == 2
\* The most whitespace characters on either side of a raw link.
MaxPad == 1
\* The most tokens a date run's URL is made of.
MaxTokens == 3

\* The sequences over S of length at most n.
SeqsUpTo(S, n) == UNION { [1..k -> S] : k \in 0..n }

Modes == { <<"a","b","s">>, <<"h","t","m","l">> }

Years == { <<"1","9">>, <<"2","0">> }

Paths ==
    { <<"/","a","b","s","/","2","4","1","2",".","1","9","7","8","4">>, <<"/","p","d","f","/","2","4","1","2",".","1","9","7","8","4">>, <<"/","h","t","m","l","/","2","5","0","1",".","0","0","3","6","4","v","1">>,
      <<"/","h","t","m","l","/","2","4","1","3",".","0","0","3","6","4","v","1">>,
      <<"/","l","i","s","t","/","c","s","/","n","e","w">>, <<"/","l","i","s","t","/","c","s","/","r","e","c","e","n","t">>, <<"/","l","i","s","t","/","c","s","/","n","e","w","?","s","k","i","p","=","0">>,
      <<"/","l","i","s","t","/","c","s","/","n","e","w","?","x","=","/","r","e","c","e","n","t">>, <<"/","l","i","s","t","/","c","s","/","r","e","c","e","n","t","?","x","=","/","n","e","w">>,
      <<"/","l","i","s","t","/","c","s","/","n","e","w","e","s","t">>, <<"/","l","i","s","t","/","n","e","w">>, <<"/","l","i","s","t","/","c","s","/","n","e","w","\n">>, <<"/","l","i","s","t","/","c","s","/","n","e","w","\n","x">>,
      <<"/","l","i","s","t","/","a","\n","b","/","n","e","w">>, <<"/","l","i","s","t","/","c","s","/","n","e","w","?","r","e","f","=","h","t","t","p",":","/","/","a","r","x","i","v",".","o","r","g","/","a","b","s","/","1">>,
      <<"/","s","e","a","r","c","h","/","?","q","=","a">>, <<"/","a","b","s">>, <<>> }

Urls ==
    { s \o <<"a","r","x","i","v",".","o","r","g">> \o p : s \in { <<"h","t","t","p",":","/","/">>, <<"h","t","t","p","s",":","/","/">> }, p \in Paths }
    \cup { <<"h","t","t","p","s",":","/","/","a","r","x","i","v","X","o","r","g","/","a","b","s","/","2","4","1","2",".","1","9","7","8","4">>, <<"f","t","p",":","/","/","a","r","x","i","v",".","o","r","g","/","a","b","s","/","2","4","1","2",".","1","9","7","8","4">>,
           <<"a","r","x","i","v",".","o","r","g","/","a","b","s","/","2","4","1","2",".","1","9","7","8","4">>, <<" ","h","t","t","p","s",":","/","/","a","r","x","i","v",".","o","r","g","/","a","b","s","/","2","4","1","2",".","1","9","7","8","4">>,
           <<"h","t","t","p","s",":","/","/","e","x","a","m","p","l","e",".","c","o","m","/","?","u","=","h","t","t","p",":","/","/","a","r","x","i","v",".","o","r","g","/","a","b","s","/","1">>,
           <<"h","t","t","p","s",":","/","/","a","r","x","i","v",".","o","r","g","/","l","i","s","t","/","h","t","t","p",":","/","/","n","e","w">> }

AuthorDivs == { None, Str(<<"A","u","t","h","o","r","s",":","A"," ","B",","," ","C"," ","D">>), Str(<<"A"," ","B">>) }
Titles == { NoTag, Str(<<"T">>) }
Dates == { NoTag, NoAttr, Str(<<>>), Str(<<"2","0","2","4","/","1","2","/","2","7">>), Str(<<"2","7"," ","D","e","c">>) }
Abstracts == { NoTag, Str(<<"X">>) }
Latexmls ==
    { NoTag, Str(<<>>), Str(<<"h","t","t","p","s",":","/","/","a","r","x","i","v",".","o","r","g","/","h","t","m","l","/","2","4","1","2",".","1","9","7","8","4","v","1">>),
      Str(<<"h","t","t","p","s",":","/","/","e","x","p","o","r","t",".","a","r","x","i","v",".","o","r","g","/","h","t","m","l","/","2","4","1","2",".","1","9","7","8","4","v","1">>) }

AbsPages ==
    { [BlankSoup EXCEPT !.authors_div = a, !.citation_title = t, !.citation_date = d,
                        !.citation_abstract = b, !.latexml = l] :
        a \in AuthorDivs, t \in Titles, d \in Dates, b \in Abstracts, l \in Latexmls }

Text(s) == [kind |-> "text", text |-> s]
Sup(s) == [kind |-> "sup", text |-> s]

AuthorBlocks ==
    { [present |-> FALSE, tags |-> <<>>],
      [present |-> TRUE, tags |-> <<>>],
      [present |-> TRUE,
       tags |-> << << Text(<<" ","J","a","n","e"," "," ","D","o","e"," ","1"," ","&"," ">>), Sup(<<"1">>), Text(<<"J","o","h","n"," ","S","m","i","t","h"," ","2">>) >>,
                   << Text(<<"7">>), Text(<<",","\t","Z">>) >> >>] }

HtmlPages ==
    { [BlankSoup EXCEPT !.title = t, !.ltx_authors = a, !.sections = s] :
        t \in { None, Str(<<" ","T"," ","\n">>) }, a \in AuthorBlocks,
        s \in { <<>>, << <<"A">>, <<"S">> >> } }

\* The <a> hrefs of one listing entry.
Entries ==
    { << Str(<<"/","a","b","s","/","1">>), Str(<<"/","p","d","f","/","1">>), Str(<<"h","t","t","p","s",":","/","/","a","r","x","i","v",".","o","r","g","/","h","t","m","l","/","1","v","1">>) >>,
      << Str(<<" ","/","a","b","s","/","2">>), Str(<<"/","p","d","f","/","2">>) >>,
      << NoAttr, Str(<<"/","p","d","f","/","3">>) >>,
      << Str(<<"h","t","t","p",":","/","/","e","x","p","o","r","t",".","a","r","x","i","v",".","o","r","g","/","a","b","s","/","4">>) >>,
      << Str(<<"h","t","t","p","s",":","/","/","a","r","x","i","v",".","o","r","g",".","e","v","i","l",".","c","o","m","/","a","b","s","/","5">>) >> }

ListingPages == { [BlankSoup EXCEPT !.dts = d] : d \in SeqsUpTo(Entries, MaxEntries) }

Hrefs ==
    { Str(<<"/","a","b","s","/","1">>), Str(<<"h","t","t","p","s",":","/","/","a","r","x","i","v",".","o","r","g","/","a","b","s","/","2">>), Str(<<"/","p","d","f","/","1">>), NoAttr,
      Str(<<"a","b","s","/","3">>), Str(<<"h","t","t","p","s",":","/","/","a","r","x","i","v",".","o","r","g",".","e","v","i","l",".","c","o","m","/","a","b","s","/","5">>) }

SearchPages == { [BlankSoup EXCEPT !.anchors = a] : a \in SeqsUpTo(Hrefs, MaxLinks) }

Pages == AbsPages \cup HtmlPages \cup ListingPages \cup SearchPages

Pads == SeqsUpTo({" ", "\n"}, MaxPad)

RawCores ==
    { <<"/","a","b","s","/","1">>, <<"/">>, <<"/","/","e","v","i","l",".","c","o","m","/","x">>, <<"/","a"," ","b">>, <<"h","t","t","p","s",":","/","/","a","r","x","i","v",".","o","r","g","/","a","b","s","/","1">>,
      <<"h","t","t","p",":","/","/","a","r","x","i","v",".","o","r","g","/","a","b","s","/","1">>, <<"a","b","s","/","1">>, <<>>, <<"h","t","t","p","s",":","/","/","a","r","x","i","v",".","o","r","g",".","e","v","i","l",".","c","o","m","/">> }

Raws == { l \o c \o r : l \in Pads, c \in RawCores, r \in Pads }

Bases ==
    { DefaultBase, <<"h","t","t","p",":","/","/","a","r","x","i","v",".","o","r","g">>, <<"h","t","t","p","s",":","/","/","a","r","x","i","v",".","o","r","g","/">>,
      <<"h","t","t","p","s",":","/","/","e","x","p","o","r","t",".","a","r","x","i","v",".","o","r","g">> }

DateTokens ==
    { <<"2","4","1","2",".">>, <<"2","5","0","1",".">>, <<"2","4","1","3",".">>, <<"2","4","0","0",".">>, <<"1">>, <<"1","9","7","8","4">>, <<"/","a","b","s","/">>, <<"v","1",".">> }

DateUrls == { Concat(ts) : ts \in SeqsUpTo(DateTokens, MaxTokens) }

-----------------------------------------------------------------------------
(* A dispatch call: arxiv_scraper(html, url).                              *)

NoAnswer == [raised |-> NoExc, val |-> <<>>]

NormIdle ==
    /\ raw = <<>> /\ base = DefaultBase /\ npc = "idle"
    /\ first = NoAnswer /\ second = NoAnswer

DateIdle == durl = <<>> /\ dpc = "idle" /\ date = None

DispatchIdle ==
    /\ url = <<>> /\ page = BlankSoup /\ ARXIV_SCRAPER_MODE = <<"a","b","s">>
    /\ pc = "idle" /\ local_url = <<>> /\ url_type = "other" /\ scraper = NoScraper
    /\ run = NoRun /\ result = EmptyResult /\ escaped = NoExc
    /\ nClassify = 0 /\ nInvoke = 0

Init ==
    /\ url \in Urls
    /\ page \in Pages
    /\ ARXIV_SCRAPER_MODE \in Modes
    /\ YEAR = <<"2","0">>
    /\ pc = "unclassified"
    /\ local_url = url
    /\ url_type = "other"
    /\ scraper = NoScraper
    /\ run = NoRun
    /\ result = EmptyResult
    /\ escaped = NoExc
    /\ nClassify = 0
    /\ nInvoke = 0
    /\ NormIdle
    /\ DateIdle

\* The branch conditions of arxiv_scraper, after classification.
IsOther == url_type = "other"
HasScraper == getattr_scraper(url_type) # NoScraper

\* url = url.replace("http://", "https://", 1); url_type = classify_arxiv_url(url)
Classify ==
    /\ pc = "unclassified"
    /\ LET replaced == ReplaceFirst(url, <<"h","t","t","p",":","/","/">>, <<"h","t","t","p","s",":","/","/">>)
       IN  /\ local_url' = replaced
           /\ url_type' = classify_arxiv_url(replaced)
    /\ nClassify' = nClassify + 1
    /\ pc' = "classified"
    /\ UNCHANGED << url, page, ARXIV_SCRAPER_MODE, YEAR, scraper, run, result,
                    escaped, nInvoke, normVars, dateVars >>

\* if url_type == 'other': return {}, set(), []
NotArxiv ==
    /\ pc = "classified"
    /\ IsOther
    /\ result' = EmptyResult
    /\ pc' = "unsupported"
    /\ UNCHANGED << url, page, ARXIV_SCRAPER_MODE, YEAR, local_url, url_type, scraper,
                    run, escaped, nClassify, nInvoke, normVars, dateVars >>

\* scraper = getattr(...); if not scraper: return {}, set(), []
NoExtractor ==
    /\ pc = "classified"
    /\ ~IsOther
    /\ ~HasScraper
    /\ scraper' = NoScraper
    /\ result' = EmptyResult
    /\ pc' = "unsupported"
    /\ UNCHANGED << url, page, ARXIV_SCRAPER_MODE, YEAR, local_url, url_type,
                    run, escaped, nClassify, nInvoke, normVars, dateVars >>

\* A dispatcher that invokes the extractor once more after a failure.
Invoke_retry ==
    /\ pc \in {"classified", "failed"}
    /\ ~IsOther
    /\ HasScraper
    /\ nInvoke < 2
    /\ LET selected == getattr_scraper(url_type)
           r == call_scraper(selected, page, local_url, ARXIV_SCRAPER_MODE, YEAR)
           outcome == try_scraper(r)
       IN  /\ scraper' = selected
           /\ run' = r
           /\ pc' = outcome.pc
           /\ result' = outcome.result
           /\ escaped' = outcome.escaped
    /\ nInvoke' = nInvoke + 1
    /\ UNCHANGED << url, page, ARXIV_SCRAPER_MODE, YEAR, local_url, url_type,
                    nClassify, normVars, dateVars >>

\* scraper = getattr(...); try: return await scraper(html, url) except Exception: ...
Invoke ==
    /\ pc = "classified"
    /\ ~IsOther
    /\ HasScraper
    /\ LET selected == getattr_scraper(url_type)
           r == call_scraper(selected, page, local_url, ARXIV_SCRAPER_MODE, YEAR)
           outcome == try_scraper(r)
       IN  /\ scraper' = selected
           /\ run' = r
           /\ pc' = outcome.pc
           /\ result' = outcome.result
           /\ escaped' = outcome.escaped
    /\ nInvoke' = nInvoke + 1
    /\ UNCHANGED << url, page, ARXIV_SCRAPER_MODE, YEAR, local_url, url_type,
                    nClassify, normVars, dateVars >>

Next == Classify \/ NotArxiv \/ NoExtractor \/ Invoke

Spec == Init /\ [][Next]_vars

-----------------------------------------------------------------------------
(* Normalizer runs: url_inspect(raw, base), then url_inspect of its answer. *)

NormInit ==
    /\ raw \in Raws
    /\ base \in Bases
    /\ npc = "start"
    /\ first = NoAnswer
    /\ second = NoAnswer
    /\ YEAR = <<"2","0">>
    /\ DispatchIdle
    /\ DateIdle

Inspect ==
    /\ npc = "start"
    /\ first' = url_inspect(raw, base)
    /\ npc' = IF first'.raised = NoExc THEN "once" ELSE "raised"
    /\ UNCHANGED << raw, base, second, YEAR, dispatchVars, dateVars >>

InspectAgain ==
    /\ npc = "once"
    /\ second' = url_inspect(first.val, base)
    /\ npc' = "twice"
    /\ UNCHANGED << raw, base, first, YEAR, dispatchVars, dateVars >>

NormNext == Inspect \/ InspectAgain

NormSpec == NormInit /\ [][NormNext]_vars

-----------------------------------------------------------------------------
(* Date runs: extract_date(durl).                                          *)

DateInit ==
    /\ durl \in DateUrls
    /\ YEAR \in Years
    /\ dpc = "start"
    /\ date = None
    /\ DispatchIdle
    /\ NormIdle

ExtractDate ==
    /\ dpc = "start"
    /\ date' = extract_date(durl, YEAR)
    /\ dpc' = "done"
    /\ UNCHANGED << durl, YEAR, dispatchVars, normVars >>

DateNext == ExtractDate

DateSpec == DateInit /\ [][DateNext]_vars

-----------------------------------------------------------------------------
(* The properties.                                                         *)

\* C1: when the selected extractor raises, the dispatcher raises nothing to its
\* caller and returns the empty result ({}, set(), []) in state failed.
C1_FailureContained ==
    (pc \in Terminal /\ run.raised # NoExc)
        => (pc = "failed" /\ escaped = NoExc /\ result = EmptyResult)

C1_Witness ==
    /\ pc = "failed"
    /\ scraper = "abs"
    /\ run.raised = "AttributeError"
    /\ result = EmptyResult

\* The given URL matches none of the six patterns.
MatchesNoPattern(u) == \A i \in DOMAIN PageTypes : ~ARXIV_URL_PATTERNS(PageTypes[i], u)

\* C2: a URL that matches no pattern is classified 'other', and the dispatcher
\* returns the empty result without raising and without invoking an extractor;
\* so it does for a URL of the 'pdf' type, which has no extractor.
C2_Unsupported ==
    (pc \in Terminal /\ (MatchesNoPattern(url) \/ url_type = "pdf"))
        => /\ MatchesNoPattern(url) => url_type = "other"
           /\ pc = "unsupported"
           /\ result = EmptyResult
           /\ escaped = NoExc
           /\ nInvoke = 0
           /\ run = NoRun

C2_Witness ==
    /\ pc = "unsupported"
    /\ MatchesNoPattern(url)
    /\ local_url # url
    /\ url_type = "other"
    /\ page.dts # <<>>

\* What holds of every state of a call; a classified call is in exactly one of
\* the dispatcher's three branches, so its next step is always defined.
C3_StateOK ==
    /\ pc \in {"unclassified", "classified"} \cup Terminal
    /\ (pc = "unclassified") <=> (nClassify = 0)
    /\ nClassify <= 1 /\ nInvoke <= 1
    /\ (pc \in {"extracted", "failed"}) <=> (nInvoke = 1)
    /\ nInvoke = 1 => scraper \in Registered
    /\ pc = "classified" =>
          \/ IsOther
          \/ ~IsOther /\ ~HasScraper /\ url_type = "pdf"
          \/ ~IsOther /\ HasScraper /\ url_type \in Registered

\* C3: a dispatch call starts unclassified, is classified exactly once, then
\* reaches one of extracted, unsupported and failed (a call that is not there yet
\* can always take its next step, and every step moves forward) and stays there;
\* at most one extractor is selected and it is invoked at most once, with no retry.
C3_StateMachine ==
    /\ pc = "unclassified" /\ C3_StateOK
    /\ [][ /\ pc = "unclassified" => pc' = "classified"
           /\ pc = "classified" => pc' \in Terminal
           /\ pc \in Terminal => UNCHANGED vars
           /\ C3_StateOK' ]_vars

C3_Witness ==
    /\ pc = "failed"
    /\ nClassify = 1
    /\ nInvoke = 1
    /\ scraper = "new"

\* C4: the returned result never has both a populated article and a non-empty
\* discovered_links set.
C4_ArticleOrLinks ==
    pc \in Terminal => ~(result.article.populated /\ result.links # {})

\* An abstract page with all its metadata and a rendered-page link, in the
\* deferring mode: the link alone is returned.
C4_Witness ==
    /\ pc = "extracted"
    /\ scraper = "abs"
    /\ ARXIV_SCRAPER_MODE = <<"h","t","m","l">>
    /\ abs_scraper_(page).raised = NoExc
    /\ result.links # {}
    /\ ~result.article.populated

\* The host of an absolute URL: what lies between "://" and the next "/", "?" or "#".
HostOf(u) ==
    LET i == Find(u, <<":","/","/">>)
        rest == SubSeq(u, i + 3, Len(u))
        stops == { k \in 1..Len(rest) : rest[k] \in {"/", "?", "#"} }
        n == IF stops = {} THEN Len(rest) + 1
             ELSE CHOOSE k \in stops : \A j \in stops : k <= j
    IN  SubSeq(rest, 1, n - 1)

IsAbsolute(u) == Find(u, <<":","/","/">>) > 1

\* The hrefs of the page's <a> tags.
PageHrefs(soup) ==
    { AllAnchors(soup)[i].val :
        i \in { j \in DOMAIN AllAnchors(soup) : AllAnchors(soup)[j].tag = "str" } }

\* C5: every discovered link is the normalizer's answer for an href of the page,
\* is absolute, and has the base URL's host.
C5_SameSiteLinks ==
    pc \in Terminal =>
        \A l \in result.links :
            /\ \E h \in PageHrefs(page) : url_inspect(h, DefaultBase) = [raised |-> NoExc, val |-> l]
            /\ IsAbsolute(l)
            /\ HostOf(l) = HostOf(DefaultBase)

ListingMatch(u) == ARXIV_URL_PATTERNS("new", u) \/ ARXIV_URL_PATTERNS("recent", u)

\* C6: a URL that matches a listing pattern ('new' or 'recent', with or without a
\* query string, or both at once) is classified as a listing, never as abs, pdf,
\* html or search, and as 'new' before 'recent'.
C6_ListingExclusive ==
    (pc # "unclassified" /\ ListingMatch(local_url))
        => /\ url_type \in {"new", "recent"}
           /\ url_type = (IF ARXIV_URL_PATTERNS("new", local_url) THEN "new" ELSE "recent")

C6_Witness ==
    /\ pc = "classified"
    /\ ARXIV_URL_PATTERNS("new", local_url)
    /\ ARXIV_URL_PATTERNS("recent", local_url)
    /\ Contains(local_url, <<"?">>)
    /\ url_type = "new"

\* C7: for a root-relative path (beginning with '/', whitespace around it
\* allowed) url_inspect succeeds, and url_inspect of its answer succeeds and
\* returns that answer unchanged.
C7_Idempotent ==
    (npc # "start" /\ StartsWith(Strip(raw), <<"/">>))
        => /\ npc \in {"once", "twice"}
           /\ first.raised = NoExc
           /\ first.val = base \o Strip(raw)
           /\ npc = "twice" => (second.raised = NoExc /\ second.val = first.val)

C7_Witness ==
    /\ npc = "twice"
    /\ StartsWith(Strip(raw), <<"/">>)
    /\ raw # Strip(raw)
    /\ base # DefaultBase
    /\ second = first

\* The months 01..12 as they are written.
MonthNames ==
    { <<"0","1">>, <<"0","2">>, <<"0","3">>, <<"0","4">>, <<"0","5">>, <<"0","6">>,
      <<"0","7">>, <<"0","8">>, <<"0","9">>, <<"1","0">>, <<"1","1">>, <<"1","2">> }

\* The positions of u where four digits and a dot begin.
Candidates(u) ==
    { i \in 1..Len(u) : i + 4 <= Len(u) /\ u[i + 4] = "."
                        /\ \A k \in 0..3 : u[i + k] \in {"0","1","2","3","4","5","6","7","8","9"} }

ValidCandidates(u) == { i \in Candidates(u) : SubSeq(u, i + 2, i + 3) \in MonthNames }

\* C8: extract_date returns '<century><yy>-<mm>-01' for the leftmost candidate
\* 'yymm.' whose month is in 01..12, skipping candidates with another month, and
\* no date when there is no such candidate.
C8_FirstValidDate ==
    dpc = "done" =>
        IF ValidCandidates(durl) = {} THEN date = None
        ELSE LET i == CHOOSE k \in ValidCandidates(durl) :
                          \A j \in ValidCandidates(durl) : k <= j
             IN  date = Str(YEAR \o SubSeq(durl, i, i + 1) \o <<"-">>
                                 \o SubSeq(durl, i + 2, i + 3) \o <<"-","0","1">>)

\* A candidate with an invalid month comes before the one that gives the date.
C8_Witness ==
    /\ dpc = "done"
    /\ date.tag = "str"
    /\ \E i \in Candidates(durl) : \E j \in ValidCandidates(durl) :
          i < j /\ i \notin ValidCandidates(durl)

\* The links of the entries and anchors that the normalizer accepts and that
\* are on the site's host.
ValidLinks(soup, name, mode) ==
    LET accepted ==
            IF name = "search"
            THEN { url_inspect(h, DefaultBase).val :
                     h \in { g \in PageHrefs(soup) :
                               /\ Contains(g, <<"/","a","b","s","/">>)
                               /\ url_inspect(g, DefaultBase).raised = NoExc } }
            ELSE { EntryLink(soup.dts[i], mode).val :
                     i \in { j \in DOMAIN soup.dts :
                               EntryLink(soup.dts[j], mode).raised = NoExc } }
    IN  { l \in accepted : HostOf(l) = HostOf(DefaultBase) }

\* C9: on a listing or search-results page, a link the normalizer rejects, or an
\* entry without a usable link, is skipped, and every valid link of the page is
\* still returned.
C9_BadLinkSkipped ==
    (pc \in Terminal /\ scraper \in {"new", "recent", "search"})
        => ValidLinks(page, scraper, ARXIV_SCRAPER_MODE) \subseteq result.links

\* C10: in metadata-only mode, an abstract page with title, authors and abstract
\* but no publication-date metadata gives a populated article with the title,
\* the authors and the content, and an absent publish_date.
C10_PartialExtraction ==
    ( /\ pc \in Terminal
      /\ scraper = "abs"
      /\ ARXIV_SCRAPER_MODE = <<"a","b","s">>
      /\ page.authors_div.tag = "str"
      /\ page.citation_title.tag = "str"
      /\ page.citation_abstract.tag = "str"
      /\ page.citation_date.tag = "notag" )
        => /\ result.article.populated
           /\ result.article.title = page.citation_title.val
           /\ result.article.content = page.citation_abstract.val
           /\ result.article.author # <<>>
           /\ result.article.publish_date = None
           /\ result.links = {}

=============================================================================
